---------------------------- MODULE Spec2Model ----------------------------
(***************************************************************************)
(* A model of the real-ip crate: the three header extractors, the header   *)
(* dispatch (get_forwarded_for) and the trust walk (real_ip).              *)
(*                                                                         *)
(* Header text is a sequence of one-character strings, so that splitting,  *)
(* trimming, unquoting, unbracketing and address parsing are computed      *)
(* character by character as the code computes them.  An Option (and a     *)
(* Result that is only iterated) is a sequence of zero or one element.     *)
(***************************************************************************)
EXTENDS Integers, Sequences, FiniteSets, TLC

\* ------------------------------------------------------------------ bounds

\* Longest declared hop list of a generated request.
MaxHops == 2
\* Most comma-separated segments of a generated X-Forwarded-For text.
MaxSegs == 2

\* ------------------------------------------------------------- characters

DQ == "\""
BS == "\\"
Space == " "
Comma == ","
Dot == "."
Colon == ":"
LBracket == "["
RBracket == "]"

DecDigits == {"0", "1", "2", "3", "4", "5", "6", "7", "8", "9"}
HexDigits == DecDigits \cup {"a", "b", "c", "d", "e", "f"}

\* char::to_digit, as used by the standard address parser
DigitVal(c) ==
  CASE c = "0" -> 0 [] c = "1" -> 1 [] c = "2" -> 2 [] c = "3" -> 3
    [] c = "4" -> 4 [] c = "5" -> 5 [] c = "6" -> 6 [] c = "7" -> 7
    [] c = "8" -> 8 [] c = "9" -> 9 [] c = "a" -> 10 [] c = "b" -> 11
    [] c = "c" -> 12 [] c = "d" -> 13 [] c = "e" -> 14 [] c = "f" -> 15

Front(s) == SubSeq(s, 1, Len(s) - 1)
Last(s) == s[Len(s)]

RECURSIVE Flatten(_)
\* Concatenation of a sequence of sequences (Iterator::flat_map / chain).
Flatten(ss) == IF ss = <<>> THEN <<>> ELSE Head(ss) \o Flatten(Tail(ss))

RECURSIVE SplitFrom(_, _, _)
SplitFrom(text, sep, cur) ==
  IF text = <<>> THEN <<cur>>
  ELSE IF Head(text) = sep THEN <<cur>> \o SplitFrom(Tail(text), sep, <<>>)
  ELSE SplitFrom(Tail(text), sep, Append(cur, Head(text)))

\* The pieces of text between occurrences of sep (str::split).
SplitOn(text, sep) == SplitFrom(text, sep, <<>>)

\* -------------------------------------------------- IpAddr::from_str

RECURSIVE NumVal(_, _, _)
NumVal(digits, radix, acc) ==
  IF digits = <<>> THEN acc
  ELSE NumVal(Tail(digits), radix, acc * radix + DigitVal(Head(digits)))

\* One decimal octet: 1 to 3 digits, no leading zero, at most 255; else -1.
ParseOctet(t) ==
  IF /\ Len(t) \in 1..3
     /\ \A i \in 1..Len(t) : t[i] \in DecDigits
     /\ (Len(t) > 1 => t[1] # "0")
     /\ NumVal(t, 10, 0) <= 255
  THEN NumVal(t, 10, 0) ELSE -1

\* One hexadecimal group of an IPv6 text: 1 to 4 hex digits; else -1.
ParseGroup(t) ==
  IF Len(t) \in 1..4 /\ \A i \in 1..Len(t) : t[i] \in HexDigits
  THEN NumVal(t, 16, 0) ELSE -1

ParseIpv4(t) ==
  LET parts == SplitOn(t, Dot)
      vals == [i \in 1..Len(parts) |-> ParseOctet(parts[i])]
  IN IF Len(parts) = 4 /\ \A i \in 1..4 : vals[i] >= 0
     THEN <<[fam |-> 4, parts |-> vals]>> ELSE <<>>

\* Positions i with text[i] = text[i+1] = ":".
DoubleColons(t) == {i \in 1..(Len(t) - 1) : t[i] = Colon /\ t[i + 1] = Colon}

GroupsOf(t) == IF t = <<>> THEN <<>> ELSE SplitOn(t, Colon)

\* IPv6 text: eight groups, or fewer around one "::" (no embedded IPv4 tail).
ParseIpv6(t) ==
  LET dc == DoubleColons(t) IN
  IF dc = {} THEN
    LET g == SplitOn(t, Colon)
        vals == [i \in 1..Len(g) |-> ParseGroup(g[i])]
    IN IF Len(g) = 8 /\ \A i \in 1..8 : vals[i] >= 0
       THEN <<[fam |-> 6, parts |-> vals]>> ELSE <<>>
  ELSE IF Cardinality(dc) > 1 THEN <<>>
  ELSE
    LET k == CHOOSE i \in dc : TRUE
        l == GroupsOf(SubSeq(t, 1, k - 1))
        r == GroupsOf(SubSeq(t, k + 2, Len(t)))
        lv == [i \in 1..Len(l) |-> ParseGroup(l[i])]
        rv == [i \in 1..Len(r) |-> ParseGroup(r[i])]
        gap == 8 - Len(l) - Len(r)
    IN IF /\ gap >= 1
          /\ \A i \in 1..Len(l) : lv[i] >= 0
          /\ \A i \in 1..Len(r) : rv[i] >= 0
       THEN <<[fam |-> 6, parts |-> lv \o [i \in 1..gap |-> 0] \o rv]>>
       ELSE <<>>

\* IpAddr::from_str(text), iterated: the address, or nothing on a parse error.
ParseIp(t) == IF ParseIpv4(t) # <<>> THEN ParseIpv4(t) ELSE ParseIpv6(t)

\* ------------------------------------------------- IpNetwork::contains

Min(a, b) == IF a < b THEN a ELSE b
Max(a, b) == IF a > b THEN a ELSE b

RECURSIVE Pow2(_)
Pow2(n) == IF n = 0 THEN 1 ELSE 2 * Pow2(n - 1)

\* Bits of one part of an address: an octet of IPv4, a group of IPv6.
PartBits(fam) == IF fam = 4 THEN 8 ELSE 16

\* The network of a single address: its full-length prefix (From<IpAddr>).
HostNet(ip) == [addr |-> ip, prefix |-> Len(ip.parts) * PartBits(ip.fam)]

\* proxy.contains(hop): same family and equal under the prefix mask.
Contains(net, ip) ==
  /\ net.addr.fam = ip.fam
  /\ \A k \in 1..Len(ip.parts) :
       LET w == PartBits(ip.fam)
           nb == Max(0, Min(w, net.prefix - (k - 1) * w))
       IN net.addr.parts[k] \div Pow2(w - nb) = ip.parts[k] \div Pow2(w - nb)

\* ------------------------------------------- quoting and bracket helpers

Whitespace == {" ", "\t"}

RECURSIVE TrimStart(_)
TrimStart(x) ==
  IF x # <<>> /\ Head(x) \in Whitespace THEN TrimStart(Tail(x)) ELSE x

RECURSIVE TrimEnd(_)
TrimEnd(x) ==
  IF x # <<>> /\ Last(x) \in Whitespace THEN TrimEnd(Front(x)) ELSE x

\* str::trim
Trim(x) == TrimEnd(TrimStart(x))

RECURSIVE Unquote(_, _, _)
\* The scan of maybe_quoted after the opening quote: rest is what is left to
\* read, state the EscapeState, s the text pushed so far.
Unquote(rest, state, s) ==
  IF rest = <<>> THEN s
  ELSE IF state = "Normal" THEN
    IF Head(rest) = DQ THEN s
    ELSE IF Head(rest) = BS THEN Unquote(Tail(rest), "Escaped", s)
    ELSE Unquote(Tail(rest), "Normal", Append(s, Head(rest)))
  ELSE Unquote(Tail(rest), "Normal", Append(s, Head(rest)))

\* A plausible slip: the surrounding quotes are never stripped.
MaybeQuotedKeepsQuotes(x) == x

maybe_quoted(x) ==
  IF x # <<>> /\ Head(x) = DQ THEN Unquote(Tail(x), "Normal", <<>>) ELSE x

maybe_bracketed(x) ==
  IF x # <<>> /\ Head(x) = LBracket /\ Last(x) = RBracket
  THEN SubSeq(x, 2, Len(x) - 1) ELSE x

\* ------------------------------------------------------ header extractors

\* header.to_str().unwrap_or_default(): the text, or "" for a non-text value
ToStrOrDefault(v) == IF v.str THEN v.val ELSE <<>>

\* CommaSeparatedIterator::new(header): the comma-separated segments.
CommaSeparated(header) == SplitOn(header, Comma)

\* One segment (or a whole X-Real-IP value) to zero or one address.
SegmentIp(x) == ParseIp(maybe_bracketed(maybe_quoted(x)))

\* The filter_map closure over the parsed elements of a forwarded header:
\* only Ok(Forwarded { forwarded_for: Some(NodeIdentifier { name: Ip(ip) }) }).
ForwardedHop(e) ==
  IF e.ok /\ e.for # <<>> /\ e.for[1].name = "Ip" THEN <<e.for[1].ip>> ELSE <<>>

\* The forwarded text is kept as the elements rfc7239::parse yields for it.
extract_forwarded_header(header) ==
  Flatten([i \in 1..Len(header) |-> ForwardedHop(header[i])])

\* A plausible slip: the first segment that fails to parse ends the sequence.
RECURSIVE TakeWhileParsed(_)
TakeWhileParsed(segs) ==
  IF segs = <<>> \/ SegmentIp(Trim(Head(segs))) = <<>> THEN <<>>
  ELSE SegmentIp(Trim(Head(segs))) \o TakeWhileParsed(Tail(segs))

XForwardedForStopsAtError(header) == TakeWhileParsed(CommaSeparated(header))

extract_x_forwarded_for_header(header) ==
  LET segs == CommaSeparated(header)
  IN Flatten([i \in 1..Len(segs) |-> SegmentIp(Trim(segs[i]))])

extract_real_ip_header(header) == SegmentIp(header)

\* A plausible slip: a family that yields no hop falls through to the next.
GetForwardedForFallsThrough(req) ==
  LET f == IF req.forwarded # <<>>
           THEN extract_forwarded_header(ToStrOrDefault(req.forwarded[1]))
           ELSE <<>>
      x == IF req.xff # <<>>
           THEN extract_x_forwarded_for_header(ToStrOrDefault(req.xff[1]))
           ELSE <<>>
      r == IF req.xri # <<>>
           THEN extract_real_ip_header(ToStrOrDefault(req.xri[1]))
           ELSE <<>>
  IN IF f # <<>> THEN f ELSE IF x # <<>> THEN x ELSE r

\* The hop sequence of a request, from exactly one header family.
get_forwarded_for(req) ==
  IF req.forwarded # <<>>
  THEN extract_forwarded_header(ToStrOrDefault(req.forwarded[1]))
  ELSE IF req.xff # <<>>
  THEN extract_x_forwarded_for_header(ToStrOrDefault(req.xff[1]))
  ELSE IF req.xri # <<>>
  THEN extract_real_ip_header(ToStrOrDefault(req.xri[1]))
  ELSE <<>>

\* ----------------------------------------------------------- the inputs

\* Address texts of the crate's examples.
TxtClient == <<"1", "9", "2", ".", "0", ".", "2", ".", "1">>
TxtProxy == <<"1", "0", ".", "1", "0", ".", "1", "0", ".", "1", "0">>
TxtEdge == <<"1", "0", ".", "0", ".", "0", ".", "1">>
TxtOther == <<"2", "0", "3", ".", "0", ".", "1", "1", "3", ".", "1", "0">>
TxtPeer == <<"1", "9", "8", ".", "5", "1", ".", "1", "0", "0", ".", "5">>
TxtProxyNet == <<"1", "0", ".", "1", "0", ".", "1", "0", ".", "0">>
TxtLoop6 == <<":", ":", "1">>
TxtAny4 == <<"0", ".", "0", ".", "0", ".", "0">>
TxtName == <<"u", "n", "k", "n", "o", "w", "n">>

\* IpAddr::from([a, b, c, d]) of the text
Ip(txt) == ParseIp(txt)[1]

\* IpNetwork::new(addr, prefix)
Net(txt, prefix) == [addr |-> Ip(txt), prefix |-> prefix]

\* Sequences over S of length at most n.
SeqsUpTo(S, n) == UNION {[1..k -> S] : k \in 0..n}

RECURSIVE Join(_, _)
\* The texts of a sequence with sep between them.
Join(texts, sep) ==
  IF texts = <<>> THEN <<>>
  ELSE IF Len(texts) = 1 THEN texts[1]
  ELSE texts[1] \o sep \o Join(Tail(texts), sep)

Absent == <<>>
\* A header value that is text.
TextValue(val) == <<[str |-> TRUE, val |-> val]>>
\* A header value with bytes outside visible ASCII: to_str fails.
OpaqueValue == <<[str |-> FALSE, val |-> <<>>]>>

Headers(f, x, r) == [forwarded |-> f, xff |-> x, xri |-> r]

\* Elements rfc7239::parse yields: for=<ip>, for=<name>, no for, a parse error.
ElemIp(txt) == [ok |-> TRUE, for |-> <<[name |-> "Ip", ip |-> Ip(txt)]>>]
ElemName == [ok |-> TRUE, for |-> <<[name |-> "Unknown"]>>]
ElemNoFor == [ok |-> TRUE, for |-> <<>>]
ElemErr == [ok |-> FALSE, for |-> <<>>]

\* The trusted-proxy lists: none, the examples' list in both orders, every
\* IPv4 address, and a list that certifies every hop text used.
TrustedLists ==
  { <<>>,
    <<HostNet(Ip(TxtEdge))>>,
    <<HostNet(Ip(TxtEdge)), Net(TxtProxyNet, 24)>>,
    <<Net(TxtProxyNet, 24), HostNet(Ip(TxtEdge))>>,
    <<Net(TxtAny4, 0), HostNet(Ip(TxtLoop6))>> }

HopTexts == {TxtClient, TxtProxy, TxtOther, TxtLoop6}
Remotes == {Ip(TxtEdge), Ip(TxtPeer), Ip(TxtProxy)}

\* Requests that declare a hop list through one header family, or none.
ChainRequests ==
  LET hs == SeqsUpTo(HopTexts, MaxHops) IN
    {Headers(Absent, Absent, Absent)}
    \cup {Headers(TextValue([i \in 1..Len(h) |-> ElemIp(h[i])]), Absent, Absent) :
            h \in hs}
    \cup {Headers(Absent, TextValue(Join(h, <<Comma, Space>>)), Absent) : h \in hs}
    \cup {Headers(Absent, Absent, TextValue(t)) : t \in HopTexts}

\* Requests that carry several header families at once.
MixedRequests ==
  LET fs == { Absent, OpaqueValue, TextValue(<<>>), TextValue(<<ElemNoFor>>),
              TextValue(<<ElemErr>>), TextValue(<<ElemName>>),
              TextValue(<<ElemIp(TxtClient)>>),
              TextValue(<<ElemIp(TxtClient), ElemErr, ElemIp(TxtOther)>>) }
      xs == { Absent, OpaqueValue, TextValue(<<>>), TextValue(TxtName),
              TextValue(TxtOther),
              TextValue(Join(<<TxtClient, TxtName, TxtProxy>>, <<Comma, Space>>)) }
      rs == { Absent, OpaqueValue, TextValue(TxtName), TextValue(TxtProxy) }
  IN {Headers(f, x, r) : f \in fs, x \in xs, r \in rs}

\* The ways a segment carries an address text.
Wraps == { "bare", "padded", "quoted", "escaped", "escaped quotes", "bracketed",
           "quoted bracketed", "unclosed", "unclosed escaped", "quoted tail" }

Wrap(w, t) ==
  CASE w = "bare" -> t
    [] w = "padded" -> <<Space>> \o t \o <<Space>>
    [] w = "quoted" -> <<DQ>> \o t \o <<DQ>>
    [] w = "escaped" -> <<DQ, BS>> \o t \o <<DQ>>
    [] w = "escaped quotes" -> <<DQ, BS, DQ>> \o t \o <<BS, DQ, DQ>>
    [] w = "bracketed" -> <<LBracket>> \o t \o <<RBracket>>
    [] w = "quoted bracketed" -> <<DQ, LBracket>> \o t \o <<RBracket, DQ>>
    [] w = "unclosed" -> <<DQ>> \o t
    [] w = "unclosed escaped" -> <<DQ>> \o t \o <<BS, DQ>>
    [] w = "quoted tail" -> <<DQ>> \o t \o <<DQ, "x">>

\* Every wrap of an IPv4 text, the bracket wraps of an IPv6 text, a node
\* name and the empty segment.
Segments ==
  {Wrap(w, TxtEdge) : w \in Wraps}
  \cup {Wrap(w, TxtLoop6) : w \in {"bare", "bracketed", "quoted bracketed"}}
  \cup {TxtName, <<>>}

\* Requests whose X-Forwarded-For or X-Real-IP text is built of such segments.
QuotedRequests ==
  {Headers(Absent, TextValue(Join(g, <<Comma>>)), Absent) :
     g \in SeqsUpTo(Segments, MaxSegs) \ {<<>>}}
  \cup {Headers(Absent, Absent, TextValue(g)) : g \in Segments}

\* What one call is given: (request, remote, trusted_proxies).
Inputs ==
  {[request |-> q, remote |-> r, trusted |-> t] :
     q \in ChainRequests \cup MixedRequests, r \in Remotes, t \in TrustedLists}
  \cup {[request |-> q, remote |-> Ip(TxtPeer), trusted |-> t] :
          q \in QuotedRequests, t \in {<<Net(TxtAny4, 0)>>}}

\* --------------------------------------------------------------- real_ip

VARIABLES
  trusted,   \* the trusted-proxy list the calls share
  request,   \* request[c]: the headers call c is given
  remote,    \* remote[c]: the peer address call c is given
  pc,        \* pc[c]: "call", "loop" (the 'outer loop) or "done"
  first,     \* first[c]: the Option taken off the front of the chain
  hops,      \* hops[c]: what the reversed iterator has yet to yield
  result     \* result[c]: the Option call c returned

vars == <<trusted, request, remote, pc, first, hops, result>>

Calls == DOMAIN pc

\* The inner loop: some trusted proxy contains the hop.
IsTrustedByAll(proxies, hop) ==
  \A i \in 1..Len(proxies) : Contains(proxies[i], hop)

IsTrusted(proxies, hop) ==
  \E i \in 1..Len(proxies) : Contains(proxies[i], hop)

\* A plausible slip: the peer is not chained behind the declared hops.
ChainWithoutRemote(q, r) == get_forwarded_for(q)

\* get_forwarded_for(request).chain(once(remote))
Chain(q, r) == get_forwarded_for(q) \o <<r>>

\* A plausible slip: the walk is not reversed.
NextFront(it) == [hop |-> Head(it), rest |-> Tail(it)]

\* hops.rev(): the iterator yields from its back.
NextBack(it) == [hop |-> Last(it), rest |-> Front(it)]

\* Lines 76 to 78: build the chain, take `first`, put it back in front.
Enter(c) ==
  /\ pc[c] = "call"
  /\ LET chain == Chain(request[c], remote[c]) IN
       /\ first' = [first EXCEPT ![c] = IF chain = <<>> THEN <<>> ELSE <<Head(chain)>>]
       /\ hops' = [hops EXCEPT ![c] =
                     IF chain = <<>> THEN <<>> ELSE <<Head(chain)>> \o Tail(chain)]
  /\ pc' = [pc EXCEPT ![c] = "loop"]
  /\ UNCHANGED <<trusted, request, remote, result>>

\* A plausible slip: the iterator is one the calls share.
VisitShared(c) ==
  /\ pc[c] = "loop"
  /\ hops[c] # <<>>
  /\ LET n == NextBack(hops[c]) IN
       IF IsTrusted(trusted, n.hop)
       THEN /\ hops' = [d \in Calls |-> IF hops[d] = <<>> THEN <<>> ELSE Front(hops[d])]
            /\ UNCHANGED <<pc, result>>
       ELSE /\ hops' = [hops EXCEPT ![c] = n.rest]
            /\ result' = [result EXCEPT ![c] = <<n.hop>>]
            /\ pc' = [pc EXCEPT ![c] = "done"]
  /\ UNCHANGED <<trusted, request, remote, first>>

\* One iteration of 'outer: continue past a trusted hop, return any other.
Visit(c) ==
  /\ pc[c] = "loop"
  /\ hops[c] # <<>>
  /\ LET n == NextBack(hops[c]) IN
       IF IsTrusted(trusted, n.hop)
       THEN /\ hops' = [hops EXCEPT ![c] = n.rest]
            /\ UNCHANGED <<pc, result>>
       ELSE /\ hops' = [hops EXCEPT ![c] = n.rest]
            /\ result' = [result EXCEPT ![c] = <<n.hop>>]
            /\ pc' = [pc EXCEPT ![c] = "done"]
  /\ UNCHANGED <<trusted, request, remote, first>>

\* A plausible slip: the fallback is the peer, not the first hop.
ReturnRemote(c) ==
  /\ pc[c] = "loop"
  /\ hops[c] = <<>>
  /\ result' = [result EXCEPT ![c] = <<remote[c]>>]
  /\ pc' = [pc EXCEPT ![c] = "done"]
  /\ UNCHANGED <<trusted, request, remote, first, hops>>

\* Line 90: every hop was trusted, return `first`.
ReturnFirst(c) ==
  /\ pc[c] = "loop"
  /\ hops[c] = <<>>
  /\ result' = [result EXCEPT ![c] = first[c]]
  /\ pc' = [pc EXCEPT ![c] = "done"]
  /\ UNCHANGED <<trusted, request, remote, first, hops>>

\* The state as the calls in cs are made with the inputs in[c].
Start(cs, t, in) ==
  /\ trusted = t
  /\ request = [c \in cs |-> in[c].request]
  /\ remote = [c \in cs |-> in[c].remote]
  /\ pc = [c \in cs |-> "call"]
  /\ first = [c \in cs |-> <<>>]
  /\ hops = [c \in cs |-> <<>>]
  /\ result = [c \in cs |-> <<>>]

\* real_ip as the function of its arguments that one call computes.
RECURSIVE Walk(_, _)
Walk(it, proxies) ==
  IF it = <<>> THEN <<>>
  ELSE LET n == NextBack(it) IN
         IF IsTrusted(proxies, n.hop) THEN Walk(n.rest, proxies) ELSE <<n.hop>>

real_ip(q, r, proxies) ==
  LET chain == Chain(q, r)
      found == Walk(chain, proxies)
  IN IF found # <<>> THEN found
     ELSE IF chain = <<>> THEN <<>> ELSE <<Head(chain)>>

\* Hop texts and peers of the requests that run side by side.
SharedHopTexts == {TxtClient, TxtOther, TxtProxy}
SharedRemotes == {Ip(TxtEdge), Ip(TxtPeer)}
SharedTrusted == <<HostNet(Ip(TxtEdge)), Net(TxtProxyNet, 24)>>

SharedInputs ==
  {[request |-> Headers(TextValue([i \in 1..Len(h) |-> ElemIp(h[i])]), Absent, Absent),
    remote |-> r] : h \in SeqsUpTo(SharedHopTexts, MaxHops), r \in SharedRemotes}

\* One call of real_ip, on any of the inputs.
Init == \E in \in Inputs : Start({1}, in.trusted, [c \in {1} |-> in])

Next ==
  \/ \E c \in Calls : Enter(c)
  \/ \E c \in Calls : Visit(c)
  \/ \E c \in Calls : ReturnFirst(c)

Spec == Init /\ [][Next]_vars

\* Two calls of real_ip over one trusted-proxy list.
InitShared == \E in \in [{1, 2} -> SharedInputs] : Start({1, 2}, SharedTrusted, in)

SpecShared == InitShared /\ [][Next]_vars

\* ------------------------------------------------------------ the claims

Done(c) == pc[c] = "done"

\* The chain a call walks: the declared hops, then the peer.
FullChain(c) == get_forwarded_for(request[c]) \o <<remote[c]>>

\* No range of the list contains the hop.
Untrusted(proxies, hop) == \A i \in 1..Len(proxies) : ~Contains(proxies[i], hop)

UntrustedAt(chain, proxies) ==
  {i \in 1..Len(chain) : Untrusted(proxies, chain[i])}

\* The position of the untrusted element nearest the server.
Boundary(chain, proxies) ==
  CHOOSE i \in UntrustedAt(chain, proxies) :
    \A j \in UntrustedAt(chain, proxies) : j <= i

Elems(seq) == {seq[i] : i \in 1..Len(seq)}

\* C1: a call whose peer is in no trusted range returns exactly the peer,
\* whatever its headers declare.
C1_UntrustedPeerIsReturned ==
  \A c \in Calls :
    (Done(c) /\ Untrusted(trusted, remote[c])) => result[c] = <<remote[c]>>

C1_Witness ==
  \E c \in Calls :
    /\ Done(c)
    /\ Untrusted(trusted, remote[c])
    /\ Len(get_forwarded_for(request[c])) = 2
    /\ result[c] = <<remote[c]>>

\* C2: when some element of the chain is untrusted, the call returns the
\* untrusted element nearest the server, every element after it is trusted,
\* and the elements before it were never taken off the iterator.
C2_NearestUntrustedIsReturned ==
  \A c \in Calls :
    LET chain == FullChain(c) IN
      (Done(c) /\ UntrustedAt(chain, trusted) # {}) =>
        LET i == Boundary(chain, trusted) IN
          /\ result[c] = <<chain[i]>>
          /\ \A j \in (i + 1)..Len(chain) : ~Untrusted(trusted, chain[j])
          /\ hops[c] = SubSeq(chain, 1, i - 1)

C2_Witness ==
  \E c \in Calls :
    LET chain == FullChain(c) IN
      /\ Done(c)
      /\ Len(chain) = 3
      /\ UntrustedAt(chain, trusted) = {1, 2}
      /\ chain[1] # chain[2]
      /\ result[c] = <<chain[2]>>
      /\ hops[c] = <<chain[1]>>

\* C3: when every element of the chain is trusted, the call returns the first
\* element of the chain, which is the peer when no hop is declared.
C3_AllTrustedReturnsFirst ==
  \A c \in Calls :
    LET chain == FullChain(c) IN
      (Done(c) /\ UntrustedAt(chain, trusted) = {}) =>
        /\ result[c] = <<chain[1]>>
        /\ (get_forwarded_for(request[c]) = <<>> => result[c] = <<remote[c]>>)

C3_Witness ==
  \E c \in Calls :
    LET chain == FullChain(c) IN
      /\ Done(c)
      /\ UntrustedAt(chain, trusted) = {}
      /\ Len(chain) = 3
      /\ chain[1] # remote[c]
      /\ result[c] = <<chain[1]>>

\* C4: a call returns a present value, and that value occurs in the chain.
C4_ResultIsInChain ==
  \A c \in Calls :
    Done(c) => (Len(result[c]) = 1 /\ result[c][1] \in Elems(FullChain(c)))

C4_Witness ==
  \E c \in Calls :
    /\ Done(c)
    /\ Len(result[c]) = 1
    /\ result[c][1] \in Elems(get_forwarded_for(request[c]))
    /\ result[c][1] # remote[c]

\* The hops of the one family the priority order selects.
FamilyHops(q) ==
  CASE q.forwarded # <<>> -> extract_forwarded_header(ToStrOrDefault(q.forwarded[1]))
    [] q.forwarded = <<>> /\ q.xff # <<>> ->
         extract_x_forwarded_for_header(ToStrOrDefault(q.xff[1]))
    [] q.forwarded = <<>> /\ q.xff = <<>> /\ q.xri # <<>> ->
         extract_real_ip_header(ToStrOrDefault(q.xri[1]))
    [] OTHER -> <<>>

\* C5: the chain a call builds holds the hops of exactly one family, chosen
\* by key presence in the order forwarded, x-forwarded-for, x-real-ip; a
\* present family that yields no hop is not replaced by a later one, and the
\* call then returns the peer.
C5_OneFamilyByPresence ==
  [][\A c \in DOMAIN pc :
       /\ Enter(c) => hops'[c] = FamilyHops(request[c]) \o <<remote[c]>>
       /\ (pc'[c] = "done" /\ FamilyHops(request[c]) = <<>>) =>
            result'[c] = <<remote[c]>>]_vars

C5_Witness ==
  \E c \in Calls :
    /\ Done(c)
    /\ request[c].forwarded = TextValue(<<ElemNoFor>>)
    /\ request[c].xff = TextValue(TxtOther)
    /\ request[c].xri = TextValue(TxtProxy)
    /\ remote[c] = Ip(TxtEdge)
    /\ Len(trusted) = 2
    /\ result[c] = <<remote[c]>>

\* The request has no forwarded header and its X-Forwarded-For or its
\* X-Real-IP value is the text x.
Carries(q, x) ==
  /\ q.forwarded = Absent
  /\ \/ q.xff = TextValue(x)
     \/ q.xff = Absent /\ q.xri = TextValue(x)

\* C6 as stated: a quoted address text, an address text wrapped in quotes
\* with backslash-escaped quotes inside, and a bracketed address text each
\* extract to the address of the bare text.
C6_QuotedFormsExtract ==
  \A c \in Calls : \A w \in {"quoted", "escaped quotes", "bracketed"} :
    \A t \in {TxtEdge, TxtLoop6} :
      (pc[c] # "call" /\ Carries(request[c], Wrap(w, t)))
        => first[c] = ParseIp(t)

\* C6 as amended: a quoted address text and a bracketed address text extract
\* to the address of the bare text; quotes with backslash-escaped quotes
\* inside unquote to the address text between quotes, which is no address,
\* so that segment yields no hop and the chain starts at the peer.
C6_OneLayerOfQuotes ==
  \A c \in Calls : \A t \in {TxtEdge, TxtLoop6} :
    /\ \A w \in {"quoted", "bracketed"} :
         (pc[c] # "call" /\ Carries(request[c], Wrap(w, t)))
           => first[c] = ParseIp(t)
    /\ (pc[c] # "call" /\ Carries(request[c], Wrap("escaped quotes", t)))
         => first[c] = <<remote[c]>>

C6_Witness ==
  \E c \in Calls :
    /\ Done(c)
    /\ request[c].xff = TextValue(Wrap("quoted", TxtEdge))
    /\ first[c] = <<Ip(TxtEdge)>>
    /\ first[c] # <<remote[c]>>

RECURSIVE Closes(_, _)
\* The text after an opening quote holds an unescaped closing quote.
Closes(rest, escaped) ==
  /\ rest # <<>>
  /\ IF escaped THEN Closes(Tail(rest), FALSE)
     ELSE \/ Head(rest) = DQ
          \/ Closes(Tail(rest), Head(rest) = BS)

\* A segment that opens a quote and never closes it.
BrokenQuote(x) == x # <<>> /\ Head(x) = DQ /\ ~Closes(Tail(x), FALSE)

\* The hops of the segments whose quoting is not broken.
WellQuotedHops(segs) ==
  Flatten([i \in 1..Len(segs) |->
             IF BrokenQuote(Trim(segs[i])) THEN <<>> ELSE SegmentIp(Trim(segs[i]))])

\* C7: a segment (or an X-Real-IP value) that opens a double quote and has
\* no unescaped closing quote yields no hop, and the other segments of the
\* header yield theirs.
C7_BrokenQuoteYieldsNoHop ==
  [][\A c \in DOMAIN pc :
       /\ (Enter(c) /\ request[c].forwarded = Absent /\ request[c].xff # Absent) =>
            hops'[c] = WellQuotedHops(CommaSeparated(ToStrOrDefault(request[c].xff[1])))
                         \o <<remote[c]>>
       /\ (Enter(c) /\ request[c].forwarded = Absent /\ request[c].xff = Absent
             /\ request[c].xri # Absent) =>
            hops'[c] = WellQuotedHops(<<ToStrOrDefault(request[c].xri[1])>>)
                         \o <<remote[c]>>]_vars

RECURSIVE ParsedInOrder(_)
\* The addresses of the segments that parse, in the order of the segments.
ParsedInOrder(segs) ==
  IF segs = <<>> THEN <<>>
  ELSE LET ip == ParseIp(maybe_bracketed(maybe_quoted(Trim(Head(segs)))))
       IN (IF ip = <<>> THEN <<>> ELSE ip) \o ParsedInOrder(Tail(segs))

\* C8: the hops of an X-Forwarded-For value are the addresses of its
\* segments that parse, in order; a segment that does not parse is dropped
\* and the ones before and after it are kept.
C8_UnparsedSegmentsAreDropped ==
  [][\A c \in DOMAIN pc :
       (Enter(c) /\ request[c].forwarded = Absent /\ request[c].xff # Absent) =>
         hops'[c] = ParsedInOrder(CommaSeparated(ToStrOrDefault(request[c].xff[1])))
                      \o <<remote[c]>>]_vars

C8_Witness ==
  \E c \in Calls :
    /\ pc[c] = "loop"
    /\ request[c].forwarded = Absent
    /\ request[c].xff =
         TextValue(Join(<<TxtClient, TxtName, TxtProxy>>, <<Comma, Space>>))
    /\ hops[c] = <<Ip(TxtClient), Ip(TxtProxy), remote[c]>>

\* C9: calls that run interleaved over one trusted list leave the list and
\* each other's inputs as they are, and each returns what real_ip returns
\* for its own inputs.
C9_CallsAreIndependent ==
  /\ [](\A c \in DOMAIN pc :
          pc[c] = "done" => result[c] = real_ip(request[c], remote[c], trusted))
  /\ [][/\ trusted' = trusted /\ request' = request /\ remote' = remote
        /\ \A c \in DOMAIN pc : \A d \in DOMAIN pc \ {c} :
             (Enter(c) \/ Visit(c) \/ ReturnFirst(c)) =>
               (pc'[d] = pc[d] /\ hops'[d] = hops[d] /\ first'[d] = first[d]
                  /\ result'[d] = result[d])]_vars

C9_Witness ==
  /\ Calls = {1, 2}
  /\ Done(1)
  /\ pc[2] = "loop"
  /\ Len(hops[2]) = 1
  /\ Len(get_forwarded_for(request[2])) = 2
  /\ request[1] # request[2]
  /\ result[1] # <<remote[1]>>

\* The chain from its untrusted element nearest the server to the peer.
FromBoundary(chain, proxies) ==
  SubSeq(chain, Boundary(chain, proxies), Len(chain))

\* C10: two calls with the same peer whose chains both hold an untrusted
\* element and agree from the nearest untrusted element to the peer return
\* the same address, whatever is declared before that element.
C10_HopsBeyondBoundaryDoNotMatter ==
  \A c \in Calls : \A d \in Calls :
    (Done(c) /\ Done(d) /\ remote[c] = remote[d]) =>
      LET cc == FullChain(c)
          cd == FullChain(d)
      IN (/\ UntrustedAt(cc, trusted) # {}
          /\ UntrustedAt(cd, trusted) # {}
          /\ FromBoundary(cc, trusted) = FromBoundary(cd, trusted))
           => result[c] = result[d]

C10_Witness ==
  /\ Calls = {1, 2}
  /\ Done(1) /\ Done(2)
  /\ remote[1] = remote[2]
  /\ LET c1 == FullChain(1)
         c2 == FullChain(2)
     IN /\ Len(c1) = 3 /\ Len(c2) = 2
        /\ UntrustedAt(c1, trusted) = {1, 2}
        /\ UntrustedAt(c2, trusted) = {1}
        /\ c1[1] # c1[2]
        /\ FromBoundary(c1, trusted) = c2
  /\ result[1] = result[2]

=============================================================================
